---- MODULE Spec2Model ----
(***************************************************************************)
(* Model of src/src/lib/common.ts of @youwol/vsf-flux-view: the default    *)
(* closures of the configuration schema (vdomMap, outputs, orderOperator), *)
(* the StateCommon value holder and the moduleCommon factory, together     *)
(* with the calls the host runtime makes on the module it gets back.       *)
(*                                                                         *)
(* JavaScript values are tagged records ([t |-> "undefined"],              *)
(* [t |-> "function", ...], [t |-> "ref", ...]); JavaScript objects are    *)
(* functions from property names to values.  Reference identity of a       *)
(* value is equality of its id.                                            *)
(***************************************************************************)
EXTENDS Integers, Sequences, FiniteSets, TLC

VARIABLES viewsFactory,    \* module.environment['viewsFactory']
          configInstance,  \* the resolved configuration instance
          fwdParams,       \* the parameters forwarded to the host constructor
          childrenStream,  \* the projector handed to moduleCommon
          module,          \* the module built by moduleCommon, or NoModule
          op,              \* the last operation run, with its arguments
          calls,           \* the calls made on collaborators during op
          ret              \* what op returned, or the error it threw

vars == <<viewsFactory, configInstance, fwdParams, childrenStream, module,
          op, calls, ret>>

\* ------------------------------------------------------------------ bounds
MaxData == 2
MaxFactories == 3
MaxChildren == 2

\* ------------------------------------------------------- JavaScript values
Undefined == [t |-> "undefined"]
Fn(n) == [t |-> "function", name |-> n]
Ref(i) == [t |-> "ref", id |-> i]
Str(s) == [t |-> "string", v |-> s]
Num(n) == [t |-> "number", v |-> n]
EmptyObject == [k \in {} |-> Undefined]

\* obj[k] of JavaScript: undefined when obj has no property k
Get(obj, k) == IF k \in DOMAIN obj THEN obj[k] ELSE Undefined

\* { ...a, ...b }: the properties of a, then those of b over them
Spread(a, b) ==
    [k \in DOMAIN a \cup DOMAIN b |-> IF k \in DOMAIN b THEN b[k] ELSE a[k]]

Returned(v) == [kind |-> "return", value |-> v]
Thrown(e) == [kind |-> "throw", error |-> e]
Nothing == [kind |-> "none"]

\* The data part of an incoming message
Data == 1..MaxData

\* ----------------------------------------------------- external registry
\* A view-factory of the host's registry: isCompatible(data) and view(data).
\* The registry entries used here: one accepting only data 1, one accepting
\* data 1 and 2, one accepting nothing.
Factory(i, c) == [t |-> "factory", id |-> i, compat |-> c]
FactoryKinds == {Factory("fA", {1}), Factory("fB", {1, 2}), Factory("fC", {})}

isCompatible(factory, data) == data \in factory.compat
view(factory, data) == [t |-> "vdom", by |-> factory.id, data |-> data]

RECURSIVE SeqsUpTo(_, _)
SeqsUpTo(S, n) ==
    IF n = 0 THEN {<<>>}
    ELSE LET shorter == SeqsUpTo(S, n - 1)
         IN shorter \cup {Append(q, x) : q \in shorter, x \in S}

ViewsFactories == SeqsUpTo(FactoryKinds, MaxFactories)

\* A call made on a collaborator, as the call log records it
Call(f, target, args) == [fn |-> f, on |-> target, args |-> args]

\* ------------------------------------------------ schemaCommonBase.vdomMap
\* Array.prototype.find: the predicate is called on the elements in index
\* order and the scan stops at the first element it accepts; at is the
\* index of that element, 0 when none is accepted (find returns undefined).
\* Variant: the scan goes through the whole array and keeps the last
\* element accepted
FindLastFrom(arr, i, data) ==
    LET hits == {j \in i..Len(arr) : isCompatible(arr[j], data)}
    IN [at |-> IF hits = {} THEN 0 ELSE CHOOSE j \in hits : \A h \in hits : h <= j,
        tested |-> Len(arr)]

RECURSIVE FindFrom(_, _, _)
FindFrom(arr, i, data) ==
    IF i > Len(arr) THEN [at |-> 0, tested |-> Len(arr)]
    ELSE IF isCompatible(arr[i], data) THEN [at |-> i, tested |-> i]
    ELSE FindFrom(arr, i + 1, data)

ArrayFind(arr, data) ==
    LET r == FindFrom(arr, 1, data)
    IN [value |-> IF r.at = 0 THEN Undefined ELSE arr[r.at],
        calls |-> [j \in 1..r.tested |->
                      Call("isCompatible", arr[j].id, <<data>>)]]

\* factory.view(data): a TypeError when factory is undefined, thrown out of
\* vdomMap, which has no try/catch
\* Variant: factory?.view(data), undefined instead of a TypeError
ViewOfOptional(factory, data) ==
    IF factory = Undefined
    THEN [ret |-> Returned(Undefined), calls |-> <<>>]
    ELSE [ret |-> Returned(view(factory, data)),
          calls |-> <<Call("view", factory.id, <<data>>)>>]

ViewOf(factory, data) ==
    IF factory = Undefined
    THEN [ret |-> Thrown("TypeError"), calls |-> <<>>]
    ELSE [ret |-> Returned(view(factory, data)),
          calls |-> <<Call("view", factory.id, <<data>>)>>]

vdomMap(data, mod) ==
    LET found == ArrayFind(mod.environment.viewsFactory, data)
        viewed == ViewOf(found.value, data)
    IN [ret |-> viewed.ret, calls |-> found.calls \o viewed.calls]

\* ------------------------------------------------ schemaCommonBase.outputs
\* The default: (state) => ({})
\* Variant: (state) => state
outputsEcho(state) == state

outputs(state) == EmptyObject

\* The override of the schema's documentation:
\* (state) => ({ selected$: state.selected$ })
userOutputs(state) == [k \in {"selected$"} |-> Get(state, "selected$")]

\* fn(state) for a function value held by the outputs attribute
CallOutputs(fn, state) ==
    IF fn.name = "outputs" THEN outputs(state) ELSE userOutputs(state)

\* ------------------------------------ configurationCommon.schema.options
\* The default: (data1, data2) => 0
\* Variant: (data1, data2) => data2 - data1
orderOperatorDifference(data1, data2) == data2 - data1

orderOperator(data1, data2) == 0

\* An override a user may give: ascending order of the data
userOrderOperator(data1, data2) == data1 - data2

CallOrderOperator(fn, a, b) ==
    IF fn.name = "orderOperator" THEN orderOperator(a, b)
    ELSE userOrderOperator(a, b)

\* Array.prototype.sort with comparator fn, which is stable: x goes after
\* every element that does not compare greater than it
RECURSIVE Insert(_, _, _)
Insert(sorted, x, fn) ==
    IF sorted = <<>> THEN <<x>>
    ELSE IF CallOrderOperator(fn, sorted[Len(sorted)], x) <= 0
         THEN Append(sorted, x)
         ELSE Append(Insert(SubSeq(sorted, 1, Len(sorted) - 1), x, fn),
                     sorted[Len(sorted)])

RECURSIVE StableSort(_, _)
StableSort(arr, fn) ==
    IF arr = <<>> THEN <<>>
    ELSE Insert(StableSort(SubSeq(arr, 1, Len(arr) - 1), fn), arr[Len(arr)], fn)

\* ------------------------------------------------------------- StateCommon
\* Object.assign(target, source): every own property of source is set on
\* target, by reference; source is read only.  Both objects after the call.
\* Variant: only one property of source is copied
ObjectAssignFirstOnly(target, source) ==
    LET keys == IF DOMAIN source = {} THEN {}
                ELSE {CHOOSE k \in DOMAIN source : TRUE}
    IN [target |-> Spread(target, [k \in keys |-> source[k]]),
        source |-> source]

ObjectAssign(target, source) ==
    [target |-> Spread(target, source), source |-> source]

\* new StateCommon(params): this starts with no property of its own
StateCommon(params) ==
    LET assigned == ObjectAssign(EmptyObject, params)
    IN [this |-> assigned.target, params |-> assigned.source]

\* ------------------------------------------------------------ moduleCommon
\* The projectors a caller hands to moduleCommon: each returns its own
\* children stream, or throws
ProjectorResult(fn) ==
    IF fn.name = "projectorThrows" THEN Thrown("ProjectorError")
    ELSE Returned(Ref(fn.name))

\* childrenStream(m, vDomMap)
CallProjector(fn, m, vDomMap) ==
    [ret |-> ProjectorResult(fn),
     calls |-> <<Call("childrenStream", fn.name, <<m, vDomMap>>)>>]

\* { ...containerAttributes, children: c }
\* Variants: { children: c, ...containerAttributes } and { children: c }
MergeAttributesLast(containerAttributes, c) ==
    Spread("children" :> c, containerAttributes)

MergeChildrenOnly(containerAttributes, c) == "children" :> c

Merge(containerAttributes, c) ==
    Spread(containerAttributes, "children" :> c)

\* html: (m) => ({ ...configInstance.containerAttributes,
\*                 children: childrenStream(m, configInstance.vDomMap) })
html(cfg, proj, m) ==
    LET projected == CallProjector(proj, m, Get(cfg, "vDomMap"))
    IN [ret |-> IF projected.ret.kind = "throw" THEN projected.ret
                ELSE Returned(Merge(Get(cfg, "containerAttributes"),
                                    projected.ret.value)),
        calls |-> projected.calls]

\* outputs: (args) => configInstance.outputs(args.state)
\* Variant: configInstance.outputs(args)
OutputMapperWholeArgs(cfg, args) ==
    [ret |-> Returned(CallOutputs(Get(cfg, "outputs"), args)),
     calls |-> <<Call("outputs", "configInstance", <<args>>)>>]

OutputMapper(cfg, args) ==
    [ret |-> Returned(CallOutputs(Get(cfg, "outputs"), Get(args, "state"))),
     calls |-> <<Call("outputs", "configInstance", <<Get(args, "state")>>)>>]

\* A closure of moduleCommon: its code and the variables it captures
Closure(code, cfg, proj) ==
    [t |-> "closure", code |-> code, configInstance |-> cfg,
     childrenStream |-> proj]

\* new Modules.Implementation(params, fwdParams): the host's module holds
\* the fields of params and of fwdParams
Implementation(params, fwd) == Spread(params, fwd)

\* moduleCommon(fwdParams, configInstance, childrenStream): the module, the
\* calls made while building it, and the two arguments after the call
\* Variant: the children are projected while the module is built
moduleCommonEager(fwd, cfg, proj) ==
    LET eager == html(cfg, proj, Ref("module"))
    IN [ret |-> Returned(Implementation(
                   [configuration |-> "configurationCommon",
                    inputs |-> "inputsCommon",
                    outputs |-> Closure("outputs", cfg, proj),
                    state |-> Get(cfg, "state"),
                    html |-> Closure("html", cfg, proj)], fwd)),
        calls |-> eager.calls,
        configInstance |-> cfg,
        fwdParams |-> fwd]

moduleCommon(fwd, cfg, proj) ==
    [ret |-> Returned(Implementation(
                 [configuration |-> "configurationCommon",
                  inputs |-> "inputsCommon",
                  outputs |-> Closure("outputs", cfg, proj),
                  state |-> Get(cfg, "state"),
                  html |-> Closure("html", cfg, proj)], fwd)),
     calls |-> <<>>,
     configInstance |-> cfg,
     fwdParams |-> fwd]

\* ------------------------------------------------------------ input sets
\* Plain objects: state bags and StateCommon parameter mappings
Objects ==
    {EmptyObject,
     "selected$" :> Ref("S1"),
     ("selected$" :> Ref("S2")) @@ ("count$" :> Ref("S1"))}

\* configurationCommon.schema: the default of every attribute
SchemaDefaults ==
    [vdomMap |-> Fn("vdomMap"),
     outputs |-> Fn("outputs"),
     state |-> EmptyObject,
     containerAttributes |-> "class" :> Str("d-flex flex-column"),
     options |-> [orderOperator |-> Fn("orderOperator")]]

ContainerAttributes ==
    {SchemaDefaults.containerAttributes,
     EmptyObject,
     ("class" :> Str("d-flex")) @@ ("children" :> Ref("ownChildren"))}

\* The configuration instances the host resolves from the schema: every
\* attribute holds its default or an override
ConfigInstances ==
    [vdomMap : {SchemaDefaults.vdomMap, Fn("userVdomMap")},
     outputs : {SchemaDefaults.outputs, Fn("userOutputs")},
     state : Objects,
     containerAttributes : ContainerAttributes,
     options : [orderOperator : {SchemaDefaults.options.orderOperator,
                                 Fn("userOrderOperator")}]]

Projectors == {Fn("projectorA"), Fn("projectorB"), Fn("projectorThrows")}

ForwardedParams == {[uid |-> Str("module-1")]}

\* What the host passes to the module's html function
HtmlArgs == {Ref("module"), Ref("stateStub")}

NoModule == [t |-> "none"]

\* ------------------------------------------------------------------- Init
\* The registry of a host that offers all three view-factories
HostViewsFactory ==
    <<Factory("fC", {}), Factory("fA", {1}), Factory("fB", {1, 2})>>

\* Either the registry is any list and the configuration has no override,
\* or the registry is the host's and the configuration is any resolved one
InitRegistry ==
    /\ viewsFactory \in ViewsFactories
    /\ configInstance = SchemaDefaults
    /\ childrenStream = Fn("projectorA")

InitConfiguration ==
    /\ viewsFactory = HostViewsFactory
    /\ configInstance \in ConfigInstances
    /\ childrenStream \in Projectors

Init ==
    /\ InitRegistry \/ InitConfiguration
    /\ fwdParams \in ForwardedParams
    /\ module = NoModule
    /\ op = [name |-> "none"]
    /\ calls = <<>>
    /\ ret = Nothing

\* ---------------------------------------------------------------- actions
\* The host instantiates the module: moduleCommon(fwdParams, configInstance,
\* childrenStream), once
BuildModule ==
    /\ module = NoModule
    /\ LET built == moduleCommon(fwdParams, configInstance, childrenStream)
       IN /\ module' = built.ret.value
          /\ ret' = built.ret
          /\ calls' = built.calls
          /\ configInstance' = built.configInstance
          /\ fwdParams' = built.fwdParams
    /\ op' = [name |-> "moduleCommon", fwdParams |-> fwdParams,
              configInstance |-> configInstance]
    /\ UNCHANGED <<viewsFactory, childrenStream>>

\* The host calls the module's view-producing function
CallHtml ==
    /\ module # NoModule
    /\ \E m \in HtmlArgs :
          LET f == module.html
              run == html(f.configInstance, f.childrenStream, m)
          IN /\ ret' = run.ret
             /\ calls' = run.calls
             /\ op' = [name |-> "html", m |-> m]
    /\ UNCHANGED <<viewsFactory, configInstance, fwdParams, childrenStream,
                   module>>

\* The host calls the module's output-derivation function
CallModuleOutputs ==
    /\ module # NoModule
    /\ \E s \in Objects :
          LET f == module.outputs
              run == OutputMapper(f.configInstance, [state |-> s])
          IN /\ ret' = run.ret
             /\ calls' = run.calls
             /\ op' = [name |-> "module.outputs", state |-> s]
    /\ UNCHANGED <<viewsFactory, configInstance, fwdParams, childrenStream,
                   module>>

\* The default vdomMap is called with the data of a message and a module
\* whose environment holds the view-factory list
CallVdomMap ==
    /\ \E data \in Data :
          LET run == vdomMap(data,
                             [environment |-> [viewsFactory |-> viewsFactory]])
          IN /\ ret' = run.ret
             /\ calls' = run.calls
             /\ op' = [name |-> "vdomMap", data |-> data]
    /\ UNCHANGED <<viewsFactory, configInstance, fwdParams, childrenStream,
                   module>>

\* configInstance.outputs(state) is called directly
CallOutputsAttribute ==
    /\ \E s \in Objects :
          /\ ret' = Returned(CallOutputs(configInstance.outputs, s))
          /\ op' = [name |-> "outputs", state |-> s]
    /\ calls' = <<>>
    /\ UNCHANGED <<viewsFactory, configInstance, fwdParams, childrenStream,
                   module>>

\* configInstance.options.orderOperator(a, b) is called directly
CallOrderOperatorAttribute ==
    /\ \E a \in Data, b \in Data :
          /\ ret' = Returned(Num(CallOrderOperator(
                                configInstance.options.orderOperator, a, b)))
          /\ op' = [name |-> "orderOperator", a |-> a, b |-> b]
    /\ calls' = <<>>
    /\ UNCHANGED <<viewsFactory, configInstance, fwdParams, childrenStream,
                   module>>

\* A projector orders the children of the messages received so far with
\* configInstance.options.orderOperator
SortChildren ==
    /\ \E arrived \in SeqsUpTo(Data, MaxChildren) :
          /\ ret' = Returned(StableSort(arrived,
                                configInstance.options.orderOperator))
          /\ op' = [name |-> "sort", arrived |-> arrived]
    /\ calls' = <<>>
    /\ UNCHANGED <<viewsFactory, configInstance, fwdParams, childrenStream,
                   module>>

\* new StateCommon(params)
NewStateCommon ==
    /\ \E params \in Objects :
          LET made == StateCommon(params)
          IN /\ ret' = Returned(made.this)
             /\ op' = [name |-> "StateCommon", params |-> params,
                       paramsAfter |-> made.params]
    /\ calls' = <<>>
    /\ UNCHANGED <<viewsFactory, configInstance, fwdParams, childrenStream,
                   module>>

Next ==
    \/ BuildModule
    \/ CallHtml
    \/ CallModuleOutputs
    \/ CallVdomMap
    \/ CallOutputsAttribute
    \/ CallOrderOperatorAttribute
    \/ SortChildren
    \/ NewStateCommon

Spec == Init /\ [][Next]_vars

\* ----------------------------------------------------------------- claims
ViewCalls == SelectSeq(calls, LAMBDA c : c.fn = "view")
CompatibleAt(i, data) == isCompatible(viewsFactory[i], data)
SomeCompatible(data) == \E i \in 1..Len(viewsFactory) : CompatibleAt(i, data)
ProjectorReturns == ProjectorResult(childrenStream).kind = "return"
ProjectedChildren == ProjectorResult(childrenStream).value
Attributes == configInstance.containerAttributes

\* C1: when some factory of the list is compatible with the data, the
\* default vdomMap returns view(data) of the first compatible factory in
\* list order and calls view on that factory alone.
C1_FirstCompatibleView ==
    (op.name = "vdomMap" /\ SomeCompatible(op.data)) =>
        \E i \in 1..Len(viewsFactory) :
            /\ CompatibleAt(i, op.data)
            /\ \A j \in 1..(i - 1) : ~CompatibleAt(j, op.data)
            /\ ret = Returned(view(viewsFactory[i], op.data))
            /\ ViewCalls = <<Call("view", viewsFactory[i].id, <<op.data>>)>>

\* C1 happens: the first factory is skipped and a later compatible factory,
\* other than the one that answered, is left alone.
C1_Witness ==
    /\ op.name = "vdomMap"
    /\ ret.kind = "return"
    /\ Len(viewsFactory) = 3
    /\ ~CompatibleAt(1, op.data)
    /\ CompatibleAt(2, op.data)
    /\ CompatibleAt(3, op.data)
    /\ viewsFactory[3].id # viewsFactory[2].id

\* C2 (as claimed): the projector is called with the argument of html and
\* the function held by the vdomMap attribute of the configuration instance.
C2_ProjectorReceivesVdomMap ==
    op.name = "html" =>
        /\ Len(calls) = 1
        /\ calls[1].fn = "childrenStream"
        /\ calls[1].args = <<op.m, configInstance.vdomMap>>

\* C3 (as claimed): the view holds every field of containerAttributes with
\* its value, and children equal to the projector's result.
C3_AllAttributesKept ==
    (op.name = "html" /\ ProjectorReturns) =>
        /\ ret.kind = "return"
        /\ \A k \in DOMAIN Attributes :
              k \in DOMAIN ret.value /\ ret.value[k] = Attributes[k]
        /\ Get(ret.value, "children") = ProjectedChildren

\* C3 (amended): the view holds every field of containerAttributes other
\* than children with its value, and children equal to the projector's
\* result.
C3_OtherAttributesKept ==
    (op.name = "html" /\ ProjectorReturns) =>
        /\ ret.kind = "return"
        /\ \A k \in DOMAIN Attributes \ {"children"} :
              k \in DOMAIN ret.value /\ ret.value[k] = Attributes[k]
        /\ Get(ret.value, "children") = ProjectedChildren

\* C3 happens: html has returned a view for a configuration whose
\* containerAttributes has a field.
C3_Witness ==
    /\ op.name = "html"
    /\ ret.kind = "return"
    /\ "class" \in DOMAIN Attributes

\* C4: the module's state is the state of the configuration instance, and
\* the output-derivation function called with the module's state returns
\* configInstance.outputs of that state.
C4_StateAndOutputs ==
    /\ module # NoModule => module.state = configInstance.state
    /\ (op.name = "module.outputs" /\ op.state = module.state) =>
          ret = Returned(CallOutputs(configInstance.outputs, module.state))

\* C4 happens: the host has called the output-derivation function with the
\* module's state, which holds a stream the overridden outputs exposes.
C4_Witness ==
    /\ op.name = "module.outputs"
    /\ op.state = module.state
    /\ configInstance.outputs = Fn("userOutputs")
    /\ "selected$" \in DOMAIN module.state

\* C5: when no factory of the list is compatible with the data, the default
\* vdomMap throws, returns no view and calls view on no factory.
C5_NoCompatibleThrows ==
    (op.name = "vdomMap" /\ ~SomeCompatible(op.data)) =>
        /\ ret = Thrown("TypeError")
        /\ ViewCalls = <<>>

\* C5 happens: a list with factories, none compatible with the data.
C5_Witness ==
    /\ op.name = "vdomMap"
    /\ viewsFactory # <<>>
    /\ ~SomeCompatible(op.data)
    /\ ret.kind = "throw"

C7_StateCopiesParams ==
    op.name = "StateCommon" =>
        /\ ret.kind = "return"
        /\ DOMAIN ret.value = DOMAIN op.params
        /\ \A k \in DOMAIN op.params : ret.value[k] = op.params[k]
        /\ op.paramsAfter = op.params

\* C7 happens: a StateCommon built from a mapping of two keys.
C7_Witness ==
    /\ op.name = "StateCommon"
    /\ Cardinality(DOMAIN op.params) = 2
    /\ ret.kind = "return"

\* C8: the default orderOperator returns 0, and a stable sort with it
\* leaves the children in arrival order.
C8_DefaultOrderKeepsArrival ==
    configInstance.options.orderOperator = SchemaDefaults.options.orderOperator =>
        /\ op.name = "orderOperator" => ret = Returned(Num(0))
        /\ op.name = "sort" => ret = Returned(op.arrived)

\* C8 happens: children that arrived in descending order have been sorted
\* with the default orderOperator.
C8_Witness ==
    /\ configInstance.options.orderOperator = SchemaDefaults.options.orderOperator
    /\ op.name = "sort"
    /\ Len(op.arrived) = 2
    /\ op.arrived[1] > op.arrived[2]

\* C9: with no override, outputs(state) is the empty mapping for every
\* state.
C9_DefaultOutputsEmpty ==
    (op.name = "outputs" /\ configInstance = SchemaDefaults) =>
        ret = Returned(EmptyObject)

\* C9 happens: the default outputs has been called with a state that holds
\* fields.
C9_Witness ==
    /\ op.name = "outputs"
    /\ configInstance = SchemaDefaults
    /\ DOMAIN op.state # {}

\* C10: when containerAttributes has a field children, the view's children
\* is the projector's result, not that field, and every other field of
\* containerAttributes is in the view with its value.
C10_ProjectedChildrenWin ==
    (op.name = "html" /\ ProjectorReturns /\ "children" \in DOMAIN Attributes) =>
        /\ ret.kind = "return"
        /\ DOMAIN ret.value = DOMAIN Attributes
        /\ ret.value["children"] = ProjectedChildren
        /\ ret.value["children"] # Attributes["children"]
        /\ \A k \in DOMAIN Attributes \ {"children"} :
              ret.value[k] = Attributes[k]

\* C10 happens: html has returned a view for a configuration whose
\* containerAttributes has its own children.
C10_Witness ==
    /\ op.name = "html"
    /\ ret.kind = "return"
    /\ "children" \in DOMAIN Attributes
    /\ "class" \in DOMAIN Attributes

====
